---- MODULE Spec2Model ----
(***************************************************************************)
(* Model of the call checker of VeriWasm (src/checkers/call_checker.rs):   *)
(* the indirect-call check, the call-table lookup check, check_statement   *)
(* that combines them, and the traversal that applies check_statement to   *)
(* every statement of a function.                                          *)
(***************************************************************************)
EXTENDS Integers, Sequences, FiniteSets, TLC

(***************************************************************************)
(* Bounds of the model.                                                    *)
(***************************************************************************)
\* Width, in bits, the model gives to the 64-bit integers (i64, u64) of the code.
Width == 4
\* Largest number of locations of a scanned program.
MaxLocs == 3

\* The length of a near call, added to the displacement (call_checker.rs:88).
CallLen == 5
\* The scale a call-table lookup must carry (call_checker.rs:106).
TableScale == 8

(***************************************************************************)
(* Integers of the code, at Width bits.                                    *)
(***************************************************************************)
\* u64: the unsigned integers of the code.
U64 == 0..(2^Width - 1)
\* i64: the signed integers of the code.
I64 == (-(2^(Width - 1)))..(2^(Width - 1) - 1)

\* `x as i64` on a u64: the same bits read as two's complement.
as_i64(x) == IF x >= 2^(Width - 1) THEN x - 2^Width ELSE x
\* `x as u64` on an i64: the same bits read as unsigned.
as_u64(x) == IF x < 0 THEN x + 2^Width ELSE x
\* The i64 an addition wraps to when overflow checks are off.
wrap_i64(x) == as_i64(x % 2^Width)
\* a + b on i64 values does not fit i64.
add_overflows(a, b) == (a + b) \notin I64

(***************************************************************************)
(* The abstract values (Option<CallCheckValue>) a register holds.          *)
(***************************************************************************)
DAV == {"Unknown", "Unchecked", "Checked"}
Payloads == {"p0", "p1"}

NoValue == [v |-> "None", a |-> "-"]
GuestTableBase == [v |-> "GuestTableBase", a |-> "-"]
OtherValue == [v |-> "Other", a |-> "-"]
FnPtr(c) == [v |-> "FnPtr", a |-> c]
PtrOffset(d) == [v |-> "PtrOffset", a |-> d]
TypedPtrOffset(t) == [v |-> "TypedPtrOffset", a |-> t]

CallCheckValue ==
    {NoValue, GuestTableBase, OtherValue}
        \cup {FnPtr(c) : c \in Payloads}
        \cup {PtrOffset(d) : d \in DAV}
        \cup {TypedPtrOffset(t) : t \in Payloads}

\* The registers the model tracks, and the operand widths.
Regs == {0, 1}
ValSize == {"Size8", "Size16", "Size32", "Size64"}

\* CallCheckLattice: the abstract state, one abstract value per register.
CallCheckLattice == [Regs -> CallCheckValue]

\* state.regs.get_reg(regnum, size).v: the value of the register, whatever
\* width it is read at.
get_reg(state, regnum, size) == state[regnum]

(***************************************************************************)
(* Operands and statements of the IR.                                      *)
(***************************************************************************)
MemArgReg(r, s) == [kind |-> "Reg", regnum |-> r, size |-> s, imm |-> 0]
MemArgImm(x) == [kind |-> "Imm", regnum |-> 0, size |-> "Size64", imm |-> x]

\* The sub-operands of a memory operand the model draws from.
MemArg ==
    {MemArgReg(r, s) : r \in Regs, s \in {"Size32", "Size64"}}
        \cup {MemArgImm(x) : x \in {4, TableScale}}

Mem1Arg(x) == [shape |-> "Mem1Arg", args |-> <<x>>]
Mem2Args(x, y) == [shape |-> "Mem2Args", args |-> <<x, y>>]
Mem3Args(x, y, z) == [shape |-> "Mem3Args", args |-> <<x, y, z>>]
MemScale(x, y, z) == [shape |-> "MemScale", args |-> <<x, y, z>>]

MemArgs ==
    {Mem1Arg(x) : x \in MemArg}
        \cup {Mem2Args(x, y) : x \in MemArg, y \in MemArg}
        \cup {Mem3Args(x, y, z) : x \in MemArg, y \in MemArg, z \in MemArg}
        \cup {MemScale(x, y, z) : x \in MemArg, y \in MemArg, z \in MemArg}

NoMem == [shape |-> "None", args |-> <<>>]
ValueReg(r, s) == [kind |-> "Reg", regnum |-> r, size |-> s, imm |-> 0, memargs |-> NoMem]
ValueMem(m) == [kind |-> "Mem", regnum |-> 0, size |-> "Size64", imm |-> 0, memargs |-> m]
ValueImm(x) == [kind |-> "Imm", regnum |-> 0, size |-> "Size64", imm |-> x, memargs |-> NoMem]
RIPConst == [kind |-> "RIPConst", regnum |-> 0, size |-> "Size64", imm |-> 0, memargs |-> NoMem]

StmtCall(v) == [kind |-> "Call", dst |-> RIPConst, src |-> v]
StmtUnop(dst, src) == [kind |-> "Unop", dst |-> dst, src |-> src]
StmtBinop(dst, src) == [kind |-> "Binop", dst |-> dst, src |-> src]
StmtRet == [kind |-> "Ret", dst |-> RIPConst, src |-> RIPConst]

(***************************************************************************)
(* The state: the checker's fields, the build, the last evaluation and the *)
(* traversal.                                                              *)
(***************************************************************************)
VARIABLES
    funcs,            \* CallChecker.funcs: the known function addresses
    plt,              \* CallChecker.plt: <<plt_start, plt_end>>
    overflow_checks,  \* the build panics on integer overflow (debug profile)
    op,               \* the function evaluated last
    state,            \* the abstract state it was given
    arg,              \* the statement, call target or memory operand it was given
    loc_idx,          \* the location it was given
    out,              \* what it returned, and the failure case it printed
    pc,               \* where the traversal is: "idle", "scan", "done", "panicked"
    nlocs,            \* the number of locations of the scanned program
    idx,              \* the number of locations scanned so far
    failed,           \* the traversal has recorded a failure
    rets              \* what check_statement returned at each scanned location

vars == <<funcs, plt, overflow_checks, op, state, arg, loc_idx, out,
          pc, nlocs, idx, failed, rets>>

LocIdx(addr) == [addr |-> addr, idx |-> 0]

(***************************************************************************)
(* CallChecker::check_calltable_lookup                                     *)
(***************************************************************************)
\* The match without its second reject pattern, (Some(GuestTableBase), _x).
lookup_pair_one_sided(v1, v2) ==
    IF v1 = GuestTableBase /\ v2 = PtrOffset("Checked") THEN TRUE
    ELSE IF v1 = PtrOffset("Checked") /\ v2 = GuestTableBase THEN TRUE
    ELSE IF v1.v = "TypedPtrOffset" /\ v2 = GuestTableBase THEN TRUE
    ELSE IF v1 = GuestTableBase /\ v2.v = "TypedPtrOffset" THEN TRUE
    ELSE IF v2 = GuestTableBase THEN FALSE
    ELSE TRUE

\* The match with PtrOffset(_) where the code has PtrOffset(DAV::Checked).
lookup_pair_any_offset(v1, v2) ==
    IF v1 = GuestTableBase /\ v2.v = "PtrOffset" THEN TRUE
    ELSE IF v1.v = "PtrOffset" /\ v2 = GuestTableBase THEN TRUE
    ELSE IF v1.v = "TypedPtrOffset" /\ v2 = GuestTableBase THEN TRUE
    ELSE IF v1 = GuestTableBase /\ v2.v = "TypedPtrOffset" THEN TRUE
    ELSE IF v2 = GuestTableBase \/ v1 = GuestTableBase THEN FALSE
    ELSE TRUE

\* The match with a reject pattern that asks for exactly one table base.
lookup_pair_two_bases(v1, v2) ==
    IF v1 = GuestTableBase /\ v2 = PtrOffset("Checked") THEN TRUE
    ELSE IF v1 = PtrOffset("Checked") /\ v2 = GuestTableBase THEN TRUE
    ELSE IF v1.v = "TypedPtrOffset" /\ v2 = GuestTableBase THEN TRUE
    ELSE IF v1 = GuestTableBase /\ v2.v = "TypedPtrOffset" THEN TRUE
    ELSE IF (v2 = GuestTableBase) # (v1 = GuestTableBase) THEN FALSE
    ELSE TRUE

\* The inner match on the two registers' values, its arms in order.
lookup_pair(v1, v2) ==
    IF v1 = GuestTableBase /\ v2 = PtrOffset("Checked") THEN TRUE
    ELSE IF v1 = PtrOffset("Checked") /\ v2 = GuestTableBase THEN TRUE
    ELSE IF v1.v = "TypedPtrOffset" /\ v2 = GuestTableBase THEN TRUE
    ELSE IF v1 = GuestTableBase /\ v2.v = "TypedPtrOffset" THEN TRUE
    ELSE IF v2 = GuestTableBase \/ v1 = GuestTableBase THEN FALSE
    ELSE TRUE

\* The outer pattern without the widths of the two registers.
check_calltable_lookup_any_width(st, memargs) ==
    IF /\ memargs.shape = "Mem3Args"
       /\ memargs.args[1].kind = "Reg"
       /\ memargs.args[2].kind = "Reg"
       /\ memargs.args[3].kind = "Imm" /\ memargs.args[3].imm = TableScale
    THEN lookup_pair(get_reg(st, memargs.args[1].regnum, "Size64"),
                     get_reg(st, memargs.args[2].regnum, "Size64"))
    ELSE TRUE

check_calltable_lookup(st, memargs) ==
    IF /\ memargs.shape = "Mem3Args"
       /\ memargs.args[1].kind = "Reg" /\ memargs.args[1].size = "Size64"
       /\ memargs.args[2].kind = "Reg" /\ memargs.args[2].size = "Size64"
       /\ memargs.args[3].kind = "Imm" /\ memargs.args[3].imm = TableScale
    THEN lookup_pair(get_reg(st, memargs.args[1].regnum, "Size64"),
                     get_reg(st, memargs.args[2].regnum, "Size64"))
    ELSE TRUE

(***************************************************************************)
(* CallChecker::check_indirect_call                                        *)
(***************************************************************************)
\* (*imm + (loc_idx.addr as i64) + 5) as u64: the wrapped sum, and whether
\* an addition overflowed i64 on the way (a panic where the build checks it).
call_target(imm, addr) ==
    LET a == as_i64(addr)
        s1 == imm + a
        s2 == wrap_i64(s1) + CallLen
    IN  [overflow |-> add_overflows(imm, a) \/ add_overflows(wrap_i64(s1), CallLen),
         target |-> as_u64(wrap_i64(s2))]

\* Any tracked pointer value counts as resolved.
is_fn_ptr_or_offset(v) == v.v \in {"FnPtr", "TypedPtrOffset"}

\* if let Some(FnPtr(c)) = ...: the value is a function pointer, whatever c.
is_fn_ptr(v) == v.v = "FnPtr"

\* The test is at or below plt_end instead of below it.
in_funcs_or_plt_closed(target) ==
    target \in funcs \/ (target >= plt[1] /\ target <= plt[2])

\* self.funcs.contains(&target) || ((target >= *plt_start) && (target < *plt_end))
in_funcs_or_plt(target) ==
    target \in funcs \/ (target >= plt[1] /\ target < plt[2])

\* check_indirect_call with a memory target handed to the lookup check.
check_indirect_call_mem_lookup(st, target, loc) ==
    IF target.kind = "Reg"
    THEN IF is_fn_ptr(get_reg(st, target.regnum, target.size)) THEN "true" ELSE "false"
    ELSE IF target.kind = "Mem"
    THEN IF check_calltable_lookup(st, target.memargs) THEN "true" ELSE "false"
    ELSE IF target.kind = "Imm"
    THEN LET t == call_target(target.imm, loc.addr)
         IN  IF overflow_checks /\ t.overflow
             THEN "panic"
             ELSE IF in_funcs_or_plt(t.target) THEN "true" ELSE "false"
    ELSE "true"

check_indirect_call(st, target, loc) ==
    IF target.kind = "Reg"
    THEN IF is_fn_ptr(get_reg(st, target.regnum, target.size)) THEN "true" ELSE "false"
    ELSE IF target.kind = "Mem"
    THEN "false"
    ELSE IF target.kind = "Imm"
    THEN LET t == call_target(target.imm, loc.addr)
         IN  IF overflow_checks /\ t.overflow
             THEN "panic"
             ELSE IF in_funcs_or_plt(t.target) THEN "true" ELSE "false"
    ELSE "true"

(***************************************************************************)
(* CallChecker::check_statement: what it returns ("true", "false", or      *)
(* "panic" when the call check panics) and the failure case it prints.     *)
(***************************************************************************)
Pass == [ret |-> "true", failure |-> "none"]

\* check_statement with the lookup check on a memory destination as well.
check_statement_any_operand(st, ir_stmt, loc) ==
    LET c == IF ir_stmt.kind = "Call"
             THEN check_indirect_call(st, ir_stmt.src, loc)
             ELSE "true"
    IN  IF c = "panic"
        THEN [ret |-> "panic", failure |-> "none"]
        ELSE IF c = "false"
        THEN [ret |-> "false", failure |-> "Indirect Call"]
        ELSE IF /\ ir_stmt.kind = "Unop"
                /\ \/ /\ ir_stmt.src.kind = "Mem"
                      /\ ~check_calltable_lookup(st, ir_stmt.src.memargs)
                   \/ /\ ir_stmt.dst.kind = "Mem"
                      /\ ~check_calltable_lookup(st, ir_stmt.dst.memargs)
        THEN [ret |-> "false", failure |-> "Lookup Call"]
        ELSE Pass

check_statement(st, ir_stmt, loc) ==
    LET c == IF ir_stmt.kind = "Call"
             THEN check_indirect_call(st, ir_stmt.src, loc)
             ELSE "true"
    IN  IF c = "panic"
        THEN [ret |-> "panic", failure |-> "none"]
        ELSE IF c = "false"
        THEN [ret |-> "false", failure |-> "Indirect Call"]
        ELSE IF /\ ir_stmt.kind = "Unop"
                /\ ir_stmt.src.kind = "Mem"
                /\ ~check_calltable_lookup(st, ir_stmt.src.memargs)
        THEN [ret |-> "false", failure |-> "Lookup Call"]
        ELSE Pass

(***************************************************************************)
(* The inputs the evaluations draw from.                                   *)
(***************************************************************************)
\* Addresses at the ends and the middle of the address space.
Marks == {0, 2^(Width - 1) - 1, 2^(Width - 1), 2^Width - 1}
FuncSets == SUBSET {1, 2^(Width - 1)}
\* <<plt_start, plt_end>>, the empty ranges among them.
PltRanges == {p \in Marks \X Marks : p[1] <= p[2]}
\* Two checkers for the evaluations that read neither funcs nor plt.
FewCheckers == {<<{}, <<0, 0>>>>, <<{1}, <<0, 2^Width - 1>>>>}
\* The state at function entry, and one that holds function pointers.
EntryState == [r \in Regs |-> NoValue]
FewStates == {EntryState, [r \in Regs |-> FnPtr("p0")]}

RegTargets == {ValueReg(r, s) : r \in Regs, s \in ValSize}
Reg64 == ValueReg(0, "Size64")

Result(r) == [ret |-> r, failure |-> "none"]
BoolResult(b) == Result(IF b THEN "true" ELSE "false")
\* Nothing has been evaluated yet.
Pending == Result("pending")

NoScan == /\ pc = "idle" /\ nlocs = 0 /\ idx = 0 /\ failed = FALSE /\ rets = <<>>

(***************************************************************************)
(* Evaluations of the indirect-call check: Init draws the checker, the     *)
(* build, the abstract state, the call target and its address; one action  *)
(* per kind of target applies check_indirect_call, or check_statement on   *)
(* the call statement.                                                     *)
(***************************************************************************)
CallInputs(chk, build, st, target, addr) ==
    /\ funcs = chk[1] /\ plt = chk[2] /\ overflow_checks = build
    /\ state = st /\ arg = StmtCall(target) /\ loc_idx = LocIdx(addr)

InitCall ==
    /\ op \in {"check_indirect_call", "check_statement"}
    /\ out = Pending
    /\ NoScan
    /\ \/ \E chk \in FewCheckers, st \in CallCheckLattice, t \in RegTargets \cup {RIPConst} :
            CallInputs(chk, FALSE, st, t, 0)
       \/ \E f \in FuncSets, p \in PltRanges, st \in FewStates, m \in MemArgs :
            CallInputs(<<f, p>>, FALSE, st, ValueMem(m), 0)
       \/ \E f \in FuncSets, p \in PltRanges, build \in BOOLEAN, st \in FewStates,
             d \in I64, addr \in U64 :
            CallInputs(<<f, p>>, build, st, ValueImm(d), addr)

\* The function named by op is applied to the call and its result kept.
EvalCall ==
    /\ out' = IF op = "check_indirect_call"
              THEN Result(check_indirect_call(state, arg.src, loc_idx))
              ELSE check_statement(state, arg, loc_idx)
    /\ UNCHANGED <<funcs, plt, overflow_checks, op, state, arg, loc_idx,
                   pc, nlocs, idx, failed, rets>>

CallReg ==
    /\ pc = "idle" /\ out = Pending
    /\ arg.kind = "Call" /\ arg.src.kind = "Reg"
    /\ EvalCall

CallMem ==
    /\ pc = "idle" /\ out = Pending
    /\ arg.kind = "Call" /\ arg.src.kind = "Mem"
    /\ EvalCall

CallImm ==
    /\ pc = "idle" /\ out = Pending
    /\ arg.kind = "Call" /\ arg.src.kind = "Imm"
    /\ EvalCall

CallRIPConst ==
    /\ pc = "idle" /\ out = Pending
    /\ arg.kind = "Call" /\ arg.src.kind = "RIPConst"
    /\ EvalCall

NextCall == CallReg \/ CallMem \/ CallImm \/ CallRIPConst

SpecCall == InitCall /\ [][NextCall]_vars

(***************************************************************************)
(* Evaluations of the call-table lookup check, and of check_statement on   *)
(* the statements that are not calls: Init draws the abstract state and    *)
(* the statement; check_calltable_lookup is applied to the memory operand  *)
(* of a load.                                                              *)
(***************************************************************************)
\* Loads, stores, register moves, and statements check_statement does not
\* look into.
Loads == {StmtUnop(Reg64, ValueMem(m)) : m \in MemArgs}
Stores == {StmtUnop(ValueMem(m), src) : m \in MemArgs, src \in {Reg64, ValueImm(0)}}
Moves == {StmtUnop(Reg64, src) : src \in RegTargets \cup {ValueImm(0), RIPConst}}
Others ==
    {StmtBinop(Reg64, ValueMem(m)) : m \in MemArgs}
        \cup {StmtBinop(ValueMem(m), Reg64) : m \in MemArgs}
        \cup {StmtRet}

InitLookup ==
    /\ funcs = {} /\ plt = <<0, 0>> /\ overflow_checks = FALSE
    /\ loc_idx = LocIdx(0)
    /\ out = Pending
    /\ NoScan
    /\ state \in CallCheckLattice
    /\ \/ op = "check_calltable_lookup" /\ arg \in Loads
       \/ op = "check_statement" /\ arg \in Loads \cup Stores \cup Moves \cup Others

CalltableLookup ==
    /\ pc = "idle" /\ out = Pending
    /\ op = "check_calltable_lookup"
    /\ out' = BoolResult(check_calltable_lookup(state, arg.src.memargs))
    /\ UNCHANGED <<funcs, plt, overflow_checks, op, state, arg, loc_idx,
                   pc, nlocs, idx, failed, rets>>

\* check_statement is applied to the statement and its result kept.
EvalStatement ==
    /\ out' = check_statement(state, arg, loc_idx)
    /\ UNCHANGED <<funcs, plt, overflow_checks, op, state, arg, loc_idx,
                   pc, nlocs, idx, failed, rets>>

UnopLoad ==
    /\ pc = "idle" /\ out = Pending
    /\ op = "check_statement" /\ arg \in Loads
    /\ EvalStatement

UnopStore ==
    /\ pc = "idle" /\ out = Pending
    /\ op = "check_statement" /\ arg \in Stores
    /\ EvalStatement

UnopReg ==
    /\ pc = "idle" /\ out = Pending
    /\ op = "check_statement" /\ arg \in Moves
    /\ EvalStatement

OtherStatement ==
    /\ pc = "idle" /\ out = Pending
    /\ op = "check_statement" /\ arg \in Others
    /\ EvalStatement

NextLookup == CalltableLookup \/ UnopLoad \/ UnopStore \/ UnopReg \/ OtherStatement

SpecLookup == InitLookup /\ [][NextLookup]_vars

(***************************************************************************)
(* The traversal (Checker::check_state_at_statements, called by check):    *)
(* every location in program order is given to check_statement with its    *)
(* pre-state; a failure is recorded and the scan goes on.                  *)
(***************************************************************************)
TableLoad == StmtUnop(Reg64, ValueMem(Mem3Args(MemArgReg(0, "Size64"),
                                               MemArgReg(1, "Size64"),
                                               MemArgImm(TableScale))))
\* The statements and the pre-states of the scanned programs.
ScanStmts ==
    {StmtRet, TableLoad,
     StmtCall(Reg64),
     StmtCall(ValueMem(Mem1Arg(MemArgReg(0, "Size64")))),
     StmtCall(ValueImm(2^(Width - 1) - 1))}
ScanStates ==
    {EntryState,
     [r \in Regs |-> IF r = 0 THEN GuestTableBase ELSE PtrOffset("Checked")],
     [r \in Regs |-> IF r = 0 THEN FnPtr("p0") ELSE GuestTableBase]}

InitScan ==
    /\ \E chk \in FewCheckers : funcs = chk[1] /\ plt = chk[2]
    /\ overflow_checks \in BOOLEAN
    /\ op = "check_statement" /\ state = EntryState /\ arg = StmtRet
    /\ loc_idx = LocIdx(0) /\ out = Pending
    /\ pc = "scan" /\ nlocs \in 0..MaxLocs /\ idx = 0
    /\ failed = FALSE /\ rets = <<>>

\* The traversal that returns at the first failure.
ScanStatementFailFast ==
    /\ pc = "scan" /\ idx < nlocs
    /\ \E st \in ScanStates, ir_stmt \in ScanStmts :
        LET r == check_statement(st, ir_stmt, LocIdx(idx))
        IN  /\ state' = st /\ arg' = ir_stmt /\ loc_idx' = LocIdx(idx) /\ out' = r
            /\ IF r.ret = "panic"
               THEN /\ pc' = "panicked"
                    /\ UNCHANGED <<idx, failed, rets>>
               ELSE /\ pc' = IF r.ret = "false" THEN "done" ELSE pc
                    /\ idx' = idx + 1
                    /\ failed' = (failed \/ r.ret = "false")
                    /\ rets' = Append(rets, r)
    /\ UNCHANGED <<funcs, plt, overflow_checks, op, nlocs>>

\* The statement at location idx is checked against its pre-state; a panic
\* of check_statement ends the run.
ScanStatement ==
    /\ pc = "scan" /\ idx < nlocs
    /\ \E st \in ScanStates, ir_stmt \in ScanStmts :
        LET r == check_statement(st, ir_stmt, LocIdx(idx))
        IN  /\ state' = st /\ arg' = ir_stmt /\ loc_idx' = LocIdx(idx) /\ out' = r
            /\ IF r.ret = "panic"
               THEN /\ pc' = "panicked"
                    /\ UNCHANGED <<idx, failed, rets>>
               ELSE /\ pc' = pc
                    /\ idx' = idx + 1
                    /\ failed' = (failed \/ r.ret = "false")
                    /\ rets' = Append(rets, r)
    /\ UNCHANGED <<funcs, plt, overflow_checks, op, nlocs>>

\* Every location has been scanned: the run ends with its verdict.
ScanFinish ==
    /\ pc = "scan" /\ idx = nlocs
    /\ pc' = "done"
    /\ UNCHANGED <<funcs, plt, overflow_checks, op, state, arg, loc_idx, out,
                   nlocs, idx, failed, rets>>

\* The verdict of a finished run: check(result).
check == ~failed

NextScan == ScanStatement \/ ScanFinish

SpecScan == InitScan /\ [][NextScan]_vars

(***************************************************************************)
(* What the claims speak of, stated on the inputs of the evaluation and    *)
(* not through the checker's own functions.                                *)
(***************************************************************************)
Evaluated == out.ret # "pending"
Accepted == out.ret = "true"
Rejected == out.ret = "false"

\* Mem3Args(Reg 64-bit, Reg 64-bit, Imm 8).
IsTableShape(m) ==
    /\ m.shape = "Mem3Args"
    /\ m.args[1].kind = "Reg" /\ m.args[1].size = "Size64"
    /\ m.args[2].kind = "Reg" /\ m.args[2].size = "Size64"
    /\ m.args[3].kind = "Imm" /\ m.args[3].imm = 8

\* The abstract values of the two registers of a memory operand of that shape.
RegValue(m, i) == state[m.args[i].regnum]
IsTableBase(v) == v.v = "GuestTableBase"
AcceptedPartner(v) == (v.v = "PtrOffset" /\ v.a = "Checked") \/ v.v = "TypedPtrOffset"

\* The four accepted ordered combinations.
IsAcceptedPair(v1, v2) ==
    \/ IsTableBase(v1) /\ v2.v = "PtrOffset" /\ v2.a = "Checked"
    \/ v1.v = "PtrOffset" /\ v1.a = "Checked" /\ IsTableBase(v2)
    \/ IsTableBase(v1) /\ v2.v = "TypedPtrOffset"
    \/ v1.v = "TypedPtrOffset" /\ IsTableBase(v2)

\* Exactly one of the two is the table base and the other is no accepted partner.
OneBaseBadPartner(v1, v2) ==
    \/ IsTableBase(v1) /\ ~IsTableBase(v2) /\ ~AcceptedPartner(v2)
    \/ IsTableBase(v2) /\ ~IsTableBase(v1) /\ ~AcceptedPartner(v1)

\* The evaluation was of a load (check_statement) or of its memory operand
\* (check_calltable_lookup).
OnLoad == arg.kind = "Unop" /\ arg.src.kind = "Mem"
LoadOperand == arg.src.memargs

\* C1: at Mem3Args(Reg64, Reg64, Imm 8), when exactly one register is
\* GuestTableBase and the other is neither PtrOffset(Checked) nor
\* TypedPtrOffset(_), check_calltable_lookup returns false and check_statement
\* on a Unop with that source returns false (failure case "Lookup Call").
C1_UnverifiedOffsetRejected ==
    (/\ Evaluated /\ OnLoad /\ IsTableShape(LoadOperand)
     /\ OneBaseBadPartner(RegValue(LoadOperand, 1), RegValue(LoadOperand, 2)))
        => /\ Rejected
           /\ op = "check_statement" => out.failure = "Lookup Call"

\* Scenario D: the table base with an offset that is not checked, on a load
\* given to check_statement.
C1_Witness ==
    /\ Evaluated /\ op = "check_statement" /\ OnLoad /\ IsTableShape(LoadOperand)
    /\ RegValue(LoadOperand, 1) = GuestTableBase
    /\ RegValue(LoadOperand, 2) = PtrOffset("Unchecked")
    /\ Rejected

C7_NotALookupAccepted ==
    (/\ Evaluated /\ op = "check_calltable_lookup"
     /\ \/ ~IsTableShape(LoadOperand)
        \/ /\ ~IsTableBase(RegValue(LoadOperand, 1))
           /\ ~IsTableBase(RegValue(LoadOperand, 2)))
        => Accepted

\* A near miss: the table base and an unchecked offset, one register 32-bit.
C7_Witness ==
    /\ Evaluated /\ op = "check_calltable_lookup"
    /\ LoadOperand.shape = "Mem3Args"
    /\ LoadOperand.args[1] = MemArgReg(0, "Size64")
    /\ LoadOperand.args[2] = MemArgReg(1, "Size32")
    /\ LoadOperand.args[3] = MemArgImm(8)
    /\ state[0] = GuestTableBase /\ state[1] = PtrOffset("Unchecked")
    /\ Accepted

\* A memory operand of the table shape whose registers hold one
\* GuestTableBase and a value that is no accepted partner.
BadLookup(v) ==
    /\ v.kind = "Mem" /\ IsTableShape(v.memargs)
    /\ \/ IsTableBase(RegValue(v.memargs, 1)) /\ ~AcceptedPartner(RegValue(v.memargs, 2))
       \/ IsTableBase(RegValue(v.memargs, 2)) /\ ~AcceptedPartner(RegValue(v.memargs, 1))

\* C8 as claimed: whatever the kind of the statement and whether the memory
\* operand is its source or its destination, check_statement returns false
\* when one register is GuestTableBase and the other no accepted partner.
C8_AnyStatementAnyOperand ==
    (/\ Evaluated /\ op = "check_statement" /\ arg.kind # "Call"
     /\ BadLookup(arg.src) \/ BadLookup(arg.dst))
        => Rejected

\* C8 amended: check_statement applies the lookup check to the source of a
\* Unop and to nothing else: a statement that is not a call is rejected if and
\* only if it is a Unop whose source is a memory operand of the table shape
\* with one register GuestTableBase and the other no accepted partner.
C8_OnlyUnopSource ==
    (Evaluated /\ op = "check_statement" /\ arg.kind # "Call")
        => (Rejected <=> (arg.kind = "Unop" /\ BadLookup(arg.src)))

\* A load through the table base and an unknown value is rejected.
C8_Witness ==
    /\ Evaluated /\ op = "check_statement" /\ arg.kind = "Unop"
    /\ BadLookup(arg.src)
    /\ RegValue(arg.src.memargs, 2) = NoValue
    /\ Rejected

\* C10: at Mem3Args(Reg64, Reg64, Imm 8), two GuestTableBase values (the two
\* sub-operands may name one register) are rejected; and when at least one
\* register is GuestTableBase, the lookup is accepted if and only if the
\* other is PtrOffset(Checked) or TypedPtrOffset(_).
C10_TwoBasesRejected ==
    (/\ Evaluated /\ op = "check_calltable_lookup" /\ IsTableShape(LoadOperand))
        => LET v1 == RegValue(LoadOperand, 1)
               v2 == RegValue(LoadOperand, 2)
           IN  /\ IsTableBase(v1) /\ IsTableBase(v2) => Rejected
               /\ IsTableBase(v1) => (Accepted <=> AcceptedPartner(v2))
               /\ IsTableBase(v2) => (Accepted <=> AcceptedPartner(v1))

\* The same register, holding the table base, as base and as index.
C10_Witness ==
    /\ Evaluated /\ op = "check_calltable_lookup" /\ IsTableShape(LoadOperand)
    /\ LoadOperand.args[1].regnum = LoadOperand.args[2].regnum
    /\ RegValue(LoadOperand, 1) = GuestTableBase
    /\ Rejected

(***************************************************************************)
(* The indirect-call check.                                                *)
(***************************************************************************)
OnCall(kind) == Evaluated /\ arg.kind = "Call" /\ arg.src.kind = kind

\* C2: a call through a register, read at any width, is accepted if and only
\* if the register's abstract value is a function pointer (any payload); no
\* value, GuestTableBase, PtrOffset(_), TypedPtrOffset(_) and the rest are
\* rejected.
C2_RegisterCallIffFnPtr ==
    OnCall("Reg")
        => /\ Accepted <=> state[arg.src.regnum].v = "FnPtr"
           /\ Accepted \/ Rejected
           /\ (Rejected /\ op = "check_statement") => out.failure = "Indirect Call"

\* Scenario A at a narrow width and with the second payload.
C2_Witness ==
    /\ OnCall("Reg") /\ arg.src.size = "Size32"
    /\ state[arg.src.regnum] = FnPtr("p1")
    /\ Accepted

\* The target the claims resolve: d + addr + 5 in the unsigned integers of
\* the code's width.
ResolvedTarget == (arg.src.imm + loc_idx.addr + 5) % (2^Width)
InFuncsOrPlt(t) == t \in funcs \/ (plt[1] <= t /\ t < plt[2])

\* C3: a call to an immediate displacement d at address addr is accepted if
\* and only if d + addr + 5 is a known function address or lies in
\* [plt_start, plt_end), for every d and every addr.
C3_ImmediateCallIffInFuncsOrPlt ==
    OnCall("Imm") => (Accepted <=> InFuncsOrPlt(ResolvedTarget))

\* C4: a call through a memory operand is rejected, whatever the abstract
\* state, the shape of the operand, the function set and the PLT range: both
\* check_indirect_call and check_statement return false.
C4_MemoryCallRejected ==
    OnCall("Mem")
        => /\ Rejected
           /\ op = "check_statement" => out.failure = "Indirect Call"

\* Scenario B, with function pointers in the registers the operand names and
\* a PLT that spans the address space.
C4_Witness ==
    /\ OnCall("Mem") /\ op = "check_statement"
    /\ IsTableShape(arg.src.memargs)
    /\ state = [r \in Regs |-> FnPtr("p0")]
    /\ plt = <<0, 2^Width - 1>> /\ funcs # {}
    /\ Rejected /\ out.failure = "Indirect Call"

\* C6 as claimed, for every function set and every PLT range: a target equal
\* to plt_end or to plt_end + 1 is not accepted, and a target equal to
\* plt_start is not rejected.
C6_PltBoundaryAnyChecker ==
    OnCall("Imm")
        => /\ (ResolvedTarget = plt[2] \/ ResolvedTarget = plt[2] + 1) => ~Accepted
           /\ ResolvedTarget = plt[1] => ~Rejected

\* C6 amended: a target equal to plt_end or to plt_end + 1 that is no known
\* function address is never accepted (it is rejected whenever the check
\* returns); a target equal to plt_start of a PLT range that is not empty
\* (plt_start < plt_end) is never rejected (it is accepted whenever the check
\* returns, and the check fails to return only in a build that checks
\* overflow).
C6_PltBoundary ==
    OnCall("Imm")
        => /\ ((ResolvedTarget = plt[2] \/ ResolvedTarget = plt[2] + 1)
                 /\ ResolvedTarget \notin funcs)
                => /\ ~Accepted
                   /\ ~overflow_checks => Rejected
           /\ (ResolvedTarget = plt[1] /\ plt[1] < plt[2])
                => /\ ~Rejected
                   /\ ~overflow_checks => Accepted

\* Scenario E's neighbour: the target is plt_end itself, the range is not
\* empty, and a negative displacement reaches it.
C6_Witness ==
    /\ OnCall("Imm") /\ arg.src.imm < 0
    /\ plt[1] < plt[2] /\ ResolvedTarget = plt[2] /\ ResolvedTarget \notin funcs
    /\ Rejected

====
